---- MODULE Spec2Model ----
(***************************************************************************)
(* Model of src/src/App.tsx: the expression normalizer                     *)
(* (preprocessExpression), the tree converter (convertToTree,              *)
(* parseExpression) and the submission handler with its drawing effect     *)
(* (handleSubmit, useEffect).                                              *)
(*                                                                         *)
(* A JavaScript string is a sequence of one-character strings.             *)
(***************************************************************************)
EXTENDS Integers, Sequences, FiniteSets, TLC

VARIABLES
  expression,   \* App state: useState('') (line 22)
  tree,         \* App state: useState<TreeNode | null>(null) (line 23)
  svg,          \* what the container <div ref={containerRef}> holds (line 184)
  lastSubmit,   \* observation: outcome of the most recent handleSubmit
  expr,         \* normalizer run: the argument of preprocessExpression
  processed,    \* normalizer run: preprocessExpression(expr)
  twice,        \* normalizer run: preprocessExpression(processed)
  ppc,          \* normalizer run: position
  node,         \* converter run: the MathNode handed to parseExpression's converter
  converted,    \* converter run: outcome of convertToTree(node)
  parsed,       \* converter run: what parseExpression returns for it
  wrapPath,     \* converter run: path of the sub-node wrapped in a ParenthesisNode
  wrappedOut,   \* converter run: outcome of convertToTree on the wrapped graph
  cpc           \* converter run: position

vars == <<expression, tree, svg, lastSubmit, expr, processed, twice, ppc,
          node, converted, parsed, wrapPath, wrappedOut, cpc>>

appVars == <<expression, tree, svg, lastSubmit>>
preVars == <<expr, processed, twice, ppc>>
convVars == <<node, converted, parsed, wrapPath, wrappedOut, cpc>>

(***************************************************************************)
(* Bounds of the model.                                                    *)
(***************************************************************************)
MaxLen == 4        \* longest enumerated input string of the normalizer
MaxNodes == 4      \* most nodes in an enumerated MathNode graph
MaxArgs == 3       \* most operands of an enumerated OperatorNode

(***************************************************************************)
(* Characters and the JavaScript regular-expression classes \d and \s.     *)
(***************************************************************************)
\* U+2013, the en dash, named by its code point.
EnDash == "u2013"

Digits == {"0", "1", "2", "3", "4", "5", "6", "7", "8", "9"}

IsDigit(c) == c \in Digits

\* The space, the tab and the line feed stand for the characters of \s.
IsSpace(c) == c \in {" ", "\t", "\n"}

\* s.replace(/c/g, d) for a single character c: every occurrence is replaced.
ReplaceChar(s, c, d) == [i \in 1..Len(s) |-> IF s[i] = c THEN d ELSE s[i]]

\* End of the greedy run of characters of a class starting at position i:
\* the first position >= i whose character is not in the class (Len(s)+1 if none).
RECURSIVE DigitRunEnd(_, _)
DigitRunEnd(s, i) ==
  IF i <= Len(s) /\ IsDigit(s[i]) THEN DigitRunEnd(s, i + 1) ELSE i

RECURSIVE SpaceRunEnd(_, _)
SpaceRunEnd(s, i) ==
  IF i <= Len(s) /\ IsSpace(s[i]) THEN SpaceRunEnd(s, i + 1) ELSE i

Star == <<" ", "*", " ">>

\* Mutant: the replacement '$1 * (' that drops the whitespace of group 2.
MulBeforeReplacementNoSpace(s, i, j, k) ==
  SubSeq(s, i, j - 1) \o Star \o <<s[k]>>

\* The replacement '$1 * $2' of line 80: group 1 is the digit run s[i..j-1],
\* group 2 the whitespace run and the parenthesis s[j..k].
MulBeforeReplacement(s, i, j, k) ==
  SubSeq(s, i, j - 1) \o Star \o SubSeq(s, j, k)

\* s.replace(/(\d+)(\s*\()/g, '$1 * $2') scanning from position i. A match at i
\* takes the whole digit run (a shorter one is followed by a digit, never by
\* whitespace or a parenthesis), then the whitespace run, then needs "(".
\* Mutant: a digit pattern that refuses the digits after a decimal point.
MatchesBeforeInteger(s, i, j, k) ==
  /\ j > i /\ k <= Len(s) /\ s[k] = "("
  /\ \A d \in 1..(i - 1) : (s[d] = "." => \E x \in (d + 1)..(i - 1) : ~IsDigit(s[x]))

\* Whether /(\d+)(\s*\()/ matches at i, with the digit run ending before j
\* and the whitespace run before k.
MatchesBefore(s, i, j, k) == j > i /\ k <= Len(s) /\ s[k] = "("

RECURSIVE AddMulBeforeFrom(_, _)
AddMulBeforeFrom(s, i) ==
  IF i > Len(s) THEN <<>>
  ELSE LET j == DigitRunEnd(s, i)
           k == SpaceRunEnd(s, j)
       IN  IF MatchesBefore(s, i, j, k)
           THEN MulBeforeReplacement(s, i, j, k) \o AddMulBeforeFrom(s, k + 1)
           ELSE <<s[i]>> \o AddMulBeforeFrom(s, i + 1)

AddMulBeforeParen(s) == AddMulBeforeFrom(s, 1)

\* The replacement '$1 * $2' of line 81: group 1 is ")" at i, group 2 the
\* whitespace run and the digit run s[i+1..j-1].
MulAfterReplacement(s, i, j) ==
  <<s[i]>> \o Star \o SubSeq(s, i + 1, j - 1)

\* s.replace(/(\))(\s*\d+)/g, '$1 * $2') scanning from position i.
RECURSIVE AddMulAfterFrom(_, _)
AddMulAfterFrom(s, i) ==
  IF i > Len(s) THEN <<>>
  ELSE LET k == SpaceRunEnd(s, i + 1)
           j == DigitRunEnd(s, k)
       IN  IF s[i] = ")" /\ j > k
           THEN MulAfterReplacement(s, i, j) \o AddMulAfterFrom(s, j)
           ELSE <<s[i]>> \o AddMulAfterFrom(s, i + 1)

AddMulAfterParen(s) == AddMulAfterFrom(s, 1)

\* Mutant: the replacement of "{" (line 76) left out.
ReplaceBracketsNoBrace(s) ==
  ReplaceChar(ReplaceChar(ReplaceChar(s, "[", "("), "}", ")"), "]", ")")

\* Lines 76-79: the four bracket replacements, in order.
ReplaceBrackets(s) ==
  ReplaceChar(ReplaceChar(ReplaceChar(ReplaceChar(s, "{", "("), "[", "("),
              "}", ")"), "]", ")")

\* Line 82.
ReplaceEnDash(s) == ReplaceChar(s, EnDash, "-")

\* Mutant: the bracket replacements applied after the multiplication rules.
preprocessExpressionBracketsLast(s) ==
  ReplaceEnDash(ReplaceBrackets(AddMulAfterParen(AddMulBeforeParen(s))))

\* Lines 74-83: the replacements in the order of the chain.
preprocessExpression(s) ==
  ReplaceEnDash(AddMulAfterParen(AddMulBeforeParen(ReplaceBrackets(s))))

(***************************************************************************)
(* JavaScript values of the converter.                                     *)
(***************************************************************************)
Undef == [type |-> "undefined"]

Null == [type |-> "null"]

\* A completed call and a thrown exception.
Return(v) == [thrown |-> FALSE, value |-> v]

Throw(name, message) == [thrown |-> TRUE, name |-> name, message |-> message]

\* Reading a property of undefined (node.type at line 48, value.toString at
\* line 61).
TypeError == Throw("TypeError", <<"Cannot read properties of undefined">>)

\* new Error('Unsupported node type: ' + node.type), line 70.
UnsupportedError(type) == Throw("Error", <<"Unsupported node type: ", type>>)

\* args[i] of a JavaScript array, 0-based in the source and 1-based here: an
\* index past the end reads undefined.
Arg(args, i) == IF i <= Len(args) THEN args[i] ELSE Undef

DigitChar(d) == <<"0", "1", "2", "3", "4", "5", "6", "7", "8", "9">>[d + 1]

\* Number.prototype.toString for a natural number: its decimal digits.
RECURSIVE NatToString(_)
NatToString(n) ==
  IF n < 10 THEN <<DigitChar(n)>>
  ELSE NatToString(n \div 10) \o <<DigitChar(n % 10)>>

\* constantNode.value.toString(), line 61: a TypeError when the value is
\* undefined.
ValueToString(n) == IF n.defined THEN Return(NatToString(n.value)) ELSE TypeError

\* Mutant: operands converted with the default flag.
OperandFlagCleared(isSubExpression) == FALSE

\* The flag convertToTree hands to the operands of an OperatorNode (lines 53-54).
OperandFlag(isSubExpression) == isSubExpression

\* Mutant: the content converted with the flag passed in.
GroupingFlagKept(isSubExpression) == isSubExpression

\* The flag convertToTree hands to the content of a ParenthesisNode (line 67).
GroupingFlag(isSubExpression) == TRUE

\* A thrown exception propagates from the first call that throws: the left
\* operand is converted before the right one. A TreeNode without children
\* has left and right undefined.
RECURSIVE convertToTree(_, _)
convertToTree(n, isSubExpression) ==
  IF n.type = "undefined" THEN TypeError
  ELSE IF n.type = "OperatorNode" THEN
    IF n.hasArgs
    THEN LET l == convertToTree(Arg(n.args, 1), OperandFlag(isSubExpression))
         IN  IF l.thrown THEN l
             ELSE LET r == convertToTree(Arg(n.args, 2), OperandFlag(isSubExpression))
                  IN  IF r.thrown THEN r
                      ELSE Return([value |-> n.op, left |-> l.value,
                                   right |-> r.value,
                                   isSubExpression |-> isSubExpression])
    ELSE Return([value |-> n.op, left |-> Undef, right |-> Undef,
                 isSubExpression |-> isSubExpression])
  ELSE IF n.type = "ConstantNode" THEN
    LET str == ValueToString(n)
    IN  IF str.thrown THEN str
        ELSE Return([value |-> str.value, left |-> Undef, right |-> Undef,
                     isSubExpression |-> isSubExpression])
  ELSE IF n.type = "ParenthesisNode" THEN
    convertToTree(n.content, GroupingFlag(isSubExpression))
  ELSE UnsupportedError(n.type)

\* The catch of parseExpression (lines 34-38): the tree, or null on any throw.
CatchToNull(outcome) == IF outcome.thrown THEN Null ELSE outcome.value

(***************************************************************************)
(* MathNode graphs.                                                        *)
(***************************************************************************)
Constant(v) == [type |-> "ConstantNode", defined |-> TRUE, value |-> v]

\* A ConstantNode whose value is undefined.
ConstantUndefined == [type |-> "ConstantNode", defined |-> FALSE, value |-> 0]

Operator(op, args) ==
  [type |-> "OperatorNode", op |-> op, hasArgs |-> TRUE, args |-> args]

\* An OperatorNode whose args property is missing (the false branch of
\* `operatorNode.args ?` at lines 53-54).
OperatorNoArgs(op) ==
  [type |-> "OperatorNode", op |-> op, hasArgs |-> FALSE, args |-> <<>>]

Parenthesis(content) == [type |-> "ParenthesisNode", content |-> content]

Other(type) == [type |-> type]

ConstValues == {2, 10}

OpSymbols == {<<"+">>, <<"*">>}

OtherTypes == {"SymbolNode"}

RECURSIVE GraphsOfSize(_)
RECURSIVE ArgLists(_, _)
\* The operand lists of k graphs with m nodes in all.
ArgLists(k, m) ==
  IF k = 0 THEN (IF m = 0 THEN {<<>>} ELSE {})
  ELSE UNION {{<<g>> \o rest : g \in GraphsOfSize(s), rest \in ArgLists(k - 1, m - s)}
              : s \in 1..(m - (k - 1))}

\* The graphs of exactly m nodes.
GraphsOfSize(m) ==
  IF m = 1
  THEN {Constant(v) : v \in ConstValues}
       \cup {Other(t) : t \in OtherTypes}
       \cup {OperatorNoArgs(op) : op \in OpSymbols}
       \cup {Operator(op, <<>>) : op \in OpSymbols}
  ELSE {Parenthesis(g) : g \in GraphsOfSize(m - 1)}
       \cup UNION {{Operator(op, as) : op \in OpSymbols, as \in ArgLists(k, m - 1)}
                   : k \in 1..MaxArgs}

Graphs == UNION {GraphsOfSize(m) : m \in 1..MaxNodes}

\* Paths into a graph: step 0 enters the content of a ParenthesisNode, step
\* i >= 1 enters operand i of an OperatorNode.
RECURSIVE GraphPaths(_)
GraphPaths(g) ==
  {<<>>}
  \cup (IF g.type = "ParenthesisNode"
        THEN {<<0>> \o q : q \in GraphPaths(g.content)} ELSE {})
  \cup (IF g.type = "OperatorNode"
        THEN UNION {{<<i>> \o q : q \in GraphPaths(g.args[i])}
                    : i \in 1..Len(g.args)}
        ELSE {})

RECURSIVE SubNode(_, _)
SubNode(g, p) ==
  IF p = <<>> THEN g
  ELSE IF Head(p) = 0 THEN SubNode(g.content, Tail(p))
  ELSE SubNode(g.args[Head(p)], Tail(p))

\* The graph g with the sub-node at path p wrapped in one more ParenthesisNode.
RECURSIVE Wrap(_, _)
Wrap(g, p) ==
  IF p = <<>> THEN Parenthesis(g)
  ELSE IF Head(p) = 0 THEN [g EXCEPT !.content = Wrap(g.content, Tail(p))]
  ELSE [g EXCEPT !.args[Head(p)] = Wrap(g.args[Head(p)], Tail(p))]

\* Whether the node at path p has a ParenthesisNode among its ancestors.
RECURSIVE InsideGrouping(_)
InsideGrouping(p) ==
  IF p = <<>> THEN FALSE
  ELSE Head(p) = 0 \/ InsideGrouping(Tail(p))

\* Where the TreeNode made from the node at path p sits in the output: a
\* ParenthesisNode adds no level, operand 1 is left, operand 2 is right and a
\* later operand is never read.
RECURSIVE TreePath(_)
TreePath(p) ==
  IF p = <<>> THEN [read |-> TRUE, path |-> <<>>]
  ELSE LET rest == TreePath(Tail(p))
       IN  IF Head(p) = 0 THEN rest
           ELSE IF Head(p) = 1
           THEN [read |-> rest.read, path |-> <<"left">> \o rest.path]
           ELSE IF Head(p) = 2
           THEN [read |-> rest.read, path |-> <<"right">> \o rest.path]
           ELSE [read |-> FALSE, path |-> <<>>]

(***************************************************************************)
(* TreeNode trees.                                                         *)
(***************************************************************************)
Present(x) == x # Undef

Last(q) == q[Len(q)]

RECURSIVE TreeAt(_, _)
TreeAt(t, tp) ==
  IF tp = <<>> THEN t
  ELSE IF Head(tp) = "left" THEN TreeAt(t.left, Tail(tp))
  ELSE TreeAt(t.right, Tail(tp))

RECURSIVE TreeSize(_)
TreeSize(t) ==
  IF ~Present(t) THEN 0 ELSE 1 + TreeSize(t.left) + TreeSize(t.right)

RECURSIVE TreePaths(_)
TreePaths(t) ==
  {<<>>}
  \cup (IF Present(t.left) THEN {<<"left">> \o q : q \in TreePaths(t.left)} ELSE {})
  \cup (IF Present(t.right) THEN {<<"right">> \o q : q \in TreePaths(t.right)} ELSE {})

\* isNaN(+value) of line 147 on the strings the converter produces: a string is
\* numeric when it is empty or a sign-less decimal numeral.
IsNumeric(str) ==
  /\ \A i \in 1..Len(str) : IsDigit(str[i]) \/ str[i] = "."
  /\ Cardinality({i \in 1..Len(str) : str[i] = "."}) <= 1
  /\ (Len(str) > 0 => \E i \in 1..Len(str) : IsDigit(str[i]))

(***************************************************************************)
(* The external parser: mathjs parse (line 33), on the normalized forms of   *)
(* the expressions the model submits.                                      *)
(***************************************************************************)
Str2p3t10m5 == <<"(", "2", "+", "3", ")", "*", "(", "1", "0", "-", "5", ")">>
Str2of3p4 == <<"2", "(", "3", "+", "4", ")">>
Str5dash2 == <<"5", " ", EnDash, " ", "2">>
StrUnbalanced == <<"(", "2", "+">>
Scenario5 == <<"[", "1", "+", "2", "]", "*", "{", "3", "+", "4", "}">>
StrMinus2 == <<"-", "2">>
Str2plusX == <<"2", "+", "x">>
Str7 == <<"7">>
Str1p2 == <<"1", "+", "2">>
Str1p2t3 == <<"1", "+", "2", "*", "3">>
StrDecimal == <<"2", ".", "5", "(", "3", ")">>

Inputs == {<<>>, Str2p3t10m5, Str2of3p4, Str5dash2, StrUnbalanced, Scenario5,
           StrMinus2, Str2plusX, Str7, Str1p2, Str1p2t3}

SyntaxError == Throw("SyntaxError", <<"Unexpected end of expression">>)

parse(s) ==
  CASE s = <<>> -> Return(ConstantUndefined)
    [] s = Str2p3t10m5 ->
         Return(Operator(<<"*">>,
           <<Parenthesis(Operator(<<"+">>, <<Constant(2), Constant(3)>>)),
             Parenthesis(Operator(<<"-">>, <<Constant(10), Constant(5)>>))>>))
    [] s = <<"2", " ", "*", " ", "(", "3", "+", "4", ")">> ->
         Return(Operator(<<"*">>,
           <<Constant(2),
             Parenthesis(Operator(<<"+">>, <<Constant(3), Constant(4)>>))>>))
    [] s = <<"5", " ", "-", " ", "2">> ->
         Return(Operator(<<"-">>, <<Constant(5), Constant(2)>>))
    [] s = StrUnbalanced -> SyntaxError
    [] s = <<"(", "1", "+", "2", ")", "*", "(", "3", "+", "4", ")">> ->
         Return(Operator(<<"*">>,
           <<Parenthesis(Operator(<<"+">>, <<Constant(1), Constant(2)>>)),
             Parenthesis(Operator(<<"+">>, <<Constant(3), Constant(4)>>))>>))
    [] s = StrMinus2 -> Return(Operator(<<"-">>, <<Constant(2)>>))
    [] s = Str2plusX ->
         Return(Operator(<<"+">>, <<Constant(2), Other("SymbolNode")>>))
    [] s = Str7 -> Return(Constant(7))
    [] s = Str1p2 -> Return(Operator(<<"+">>, <<Constant(1), Constant(2)>>))
    [] s = Str1p2t3 ->
         Return(Operator(<<"+">>,
           <<Constant(1), Operator(<<"*">>, <<Constant(2), Constant(3)>>)>>))

\* Lines 32-38 after the call of parse: convert, and null on a throw of
\* either.
TryConvert(outcome) ==
  CatchToNull(IF outcome.thrown THEN outcome ELSE convertToTree(outcome.value, FALSE))

parseExpression(s) == TryConvert(parse(s))

\* The effect of lines 93-99 on the container, run after the render that
\* follows setTree: a non-null tree replaces whatever was drawn.
useEffect(t, container) == IF t # Null THEN <<t>> ELSE container

(***************************************************************************)
(* The application: typing and submitting.                                 *)
(***************************************************************************)
InitApp ==
  /\ expression = <<>>
  /\ tree = Null
  /\ svg = <<>>
  /\ lastSubmit = "none"

IdlePre == expr = <<>> /\ processed = <<>> /\ twice = <<>> /\ ppc = "idle"

IdleConv ==
  /\ node = Undef
  /\ converted = Undef
  /\ parsed = Null
  /\ wrapPath = <<>>
  /\ wrappedOut = Undef
  /\ cpc = "idle"

\* onChange of the input, line 179.
SetExpression(e) ==
  /\ expression' = e
  /\ UNCHANGED <<tree, svg, lastSubmit, preVars, convVars>>

\* Lines 86-91, and the effect the state change triggers.
handleSubmit ==
  LET processedExpression == preprocessExpression(expression)
      treeData == parseExpression(processedExpression)
  IN  /\ tree' = treeData
      /\ svg' = useEffect(treeData, svg)
      /\ lastSubmit' = IF treeData = Null THEN "failed" ELSE "ok"
      /\ UNCHANGED <<expression, preVars, convVars>>

Init == InitApp /\ IdlePre /\ IdleConv

Next == (\E e \in Inputs : SetExpression(e)) \/ handleSubmit

Spec == Init /\ [][Next]_vars

(***************************************************************************)
(* Runs of the normalizer on bounded inputs.                               *)
(***************************************************************************)
Alphabet == {"1", " ", "*", "(", ")", "[", "]", "{", "}", ".", EnDash}

Strings == UNION {[1..n -> Alphabet] : n \in 0..MaxLen}

PreInputs == Strings \cup {Scenario5, StrDecimal, Str2of3p4}

InitPre ==
  /\ expr \in PreInputs
  /\ processed = <<>>
  /\ twice = <<>>
  /\ ppc = "start"
  /\ InitApp /\ IdleConv

Preprocess ==
  /\ ppc = "start"
  /\ processed' = preprocessExpression(expr)
  /\ ppc' = "once"
  /\ UNCHANGED <<expr, twice, appVars, convVars>>

PreprocessAgain ==
  /\ ppc = "once"
  /\ twice' = preprocessExpression(processed)
  /\ ppc' = "twice"
  /\ UNCHANGED <<expr, processed, appVars, convVars>>

NextPre == Preprocess \/ PreprocessAgain

SpecPre == InitPre /\ [][NextPre]_vars

(***************************************************************************)
(* Runs of the converter on bounded graphs.                                *)
(***************************************************************************)
\* The graphs the parser returns for the submitted expressions.
ScenarioGraphs ==
  {parse(preprocessExpression(e)).value :
     e \in {x \in Inputs \ {<<>>} : ~parse(preprocessExpression(x)).thrown}}

InitConv ==
  /\ node \in Graphs \cup ScenarioGraphs
  /\ converted = Undef
  /\ parsed = Null
  /\ wrapPath = <<>>
  /\ wrappedOut = Undef
  /\ cpc = "start"
  /\ InitApp /\ IdlePre

\* parseExpression on a graph the parser returned.
ConvertNode ==
  /\ cpc = "start"
  /\ converted' = convertToTree(node, FALSE)
  /\ parsed' = TryConvert(Return(node))
  /\ cpc' = "converted"
  /\ UNCHANGED <<node, wrapPath, wrappedOut, appVars, preVars>>

\* The same conversion with one sub-node wrapped in a further ParenthesisNode.
ConvertWrapped(p) ==
  /\ cpc = "converted"
  /\ wrapPath' = p
  /\ wrappedOut' = convertToTree(Wrap(node, p), FALSE)
  /\ cpc' = "wrapped"
  /\ UNCHANGED <<node, converted, parsed, appVars, preVars>>

NextConv == ConvertNode \/ (\E p \in GraphPaths(node) : ConvertWrapped(p))

SpecConv == InitConv /\ [][NextConv]_vars

(***************************************************************************)
(* Properties of the converter, checked under SpecConv.                    *)
(***************************************************************************)
Converted == cpc \in {"converted", "wrapped"}

Succeeded == Converted /\ ~converted.thrown

\* The paths of the nodes convertToTree makes a TreeNode from.
SourcePaths(g) ==
  {p \in GraphPaths(g) : TreePath(p).read
                         /\ SubNode(g, p).type \in {"OperatorNode", "ConstantNode"}}

SourceValue(n) == IF n.type = "OperatorNode" THEN n.op ELSE NatToString(n.value)

BinaryOnly(t) ==
  \/ Present(t.left) /\ Present(t.right) /\ ~IsNumeric(t.value)
  \/ ~Present(t.left) /\ ~Present(t.right) /\ IsNumeric(t.value)

\* C1: every node of a returned tree has both children and a non-numeric
\* value, or no child and a numeric value.
C1_BinaryOnly ==
  Succeeded =>
    \A tp \in TreePaths(converted.value) : BinaryOnly(TreeAt(converted.value, tp))

IsBinaryOperator(n) == n.hasArgs /\ Len(n.args) = 2

HasNonBinaryOperator(g) ==
  \E p \in GraphPaths(g) :
    SubNode(g, p).type = "OperatorNode" /\ ~IsBinaryOperator(SubNode(g, p))

IsUnsupported(outcome) ==
  /\ outcome.thrown
  /\ outcome.name = "Error"
  /\ outcome.message[1] = "Unsupported node type: "

\* C3: an OperatorNode without exactly two operands, anywhere in the graph,
\* makes the conversion fail with the unsupported-node error and
\* parseExpression return null.
C3_NonBinaryRejected ==
  (Converted /\ HasNonBinaryOperator(node)) =>
    IsUnsupported(converted) /\ parsed = Null

OtherPaths(g) ==
  {p \in GraphPaths(g) :
     SubNode(g, p).type \notin {"OperatorNode", "ConstantNode", "ParenthesisNode"}}

\* C4: a node of another kind at any depth makes the conversion fail with
\* "Unsupported node type" naming that kind and parseExpression return null;
\* without one, and with binary operators only, a complete tree is returned.
C4_AllOrNothing ==
  Converted =>
    /\ OtherPaths(node) # {} =>
         /\ IsUnsupported(converted)
         /\ \E p \in OtherPaths(node) : converted.message[2] = SubNode(node, p).type
         /\ parsed = Null
    /\ (OtherPaths(node) = {} /\ ~HasNonBinaryOperator(node)) =>
         /\ ~converted.thrown
         /\ parsed = converted.value
         /\ TreeSize(parsed) = Cardinality(SourcePaths(node))

\* The tree t with isSubExpression set on the node at tp alone.
RECURSIVE MarkRoot(_, _)
MarkRoot(t, tp) ==
  IF tp = <<>> THEN [t EXCEPT !.isSubExpression = TRUE]
  ELSE IF Head(tp) = "left" THEN [t EXCEPT !.left = MarkRoot(t.left, Tail(tp))]
  ELSE [t EXCEPT !.right = MarkRoot(t.right, Tail(tp))]

RECURSIVE MarkEvery(_)
MarkEvery(t) ==
  IF ~Present(t) THEN t
  ELSE [t EXCEPT !.isSubExpression = TRUE,
                 !.left = MarkEvery(t.left), !.right = MarkEvery(t.right)]

\* The tree t with isSubExpression set on every node of the subtree at tp.
RECURSIVE MarkSubtree(_, _)
MarkSubtree(t, tp) ==
  IF tp = <<>> THEN MarkEvery(t)
  ELSE IF Head(tp) = "left" THEN [t EXCEPT !.left = MarkSubtree(t.left, Tail(tp))]
  ELSE [t EXCEPT !.right = MarkSubtree(t.right, Tail(tp))]

WrappedRead == cpc = "wrapped" /\ ~converted.thrown /\ TreePath(wrapPath).read

\* C5 as stated: wrapping a sub-node in one more ParenthesisNode sets
\* isSubExpression on the root of the subtree made from it and changes
\* nothing else, the descendants of that root included.
C5_RootOnly ==
  WrappedRead =>
    wrappedOut = Return(MarkRoot(converted.value, TreePath(wrapPath).path))

\* C5 amended: wrapping a sub-node in one more ParenthesisNode keeps shape and
\* values and sets isSubExpression on every node of the subtree made from it,
\* root and descendants; flags outside that subtree are unchanged, a sub-node
\* that is never read changes nothing, and a failing conversion fails alike.
C5_GroupingTransparency ==
  cpc = "wrapped" =>
    IF WrappedRead
    THEN wrappedOut = Return(MarkSubtree(converted.value, TreePath(wrapPath).path))
    ELSE wrappedOut = converted

C5_Witness ==
  /\ WrappedRead
  /\ wrapPath # <<>>
  /\ TreeSize(TreeAt(converted.value, TreePath(wrapPath).path)) >= 3
  /\ wrappedOut # converted
  /\ wrappedOut # Return(MarkRoot(converted.value, TreePath(wrapPath).path))

\* C6: the root call uses false, operands get the flag of their operator, the
\* content of a ParenthesisNode gets true and makes no node of its own: each
\* node made from an OperatorNode or ConstantNode sits where its operand
\* positions put it, carries the symbol or the numeral, and has
\* isSubExpression exactly when its source lies inside a ParenthesisNode; the
\* tree has no other node.
C6_FlagThreading ==
  Succeeded =>
    /\ \A p \in SourcePaths(node) :
         /\ TreePath(p).path \in TreePaths(converted.value)
         /\ LET t == TreeAt(converted.value, TreePath(p).path)
            IN  /\ t.isSubExpression = InsideGrouping(p)
                /\ t.value = SourceValue(SubNode(node, p))
    /\ TreeSize(converted.value) = Cardinality(SourcePaths(node))

C6_Witness ==
  /\ Succeeded
  /\ \E p, q \in SourcePaths(node) :
       /\ Len(TreePath(p).path) >= 2
       /\ InsideGrouping(p) /\ ~InsideGrouping(q)
       /\ Last(p) # 0 /\ SubNode(node, SubSeq(p, 1, Len(p) - 1)).type = "OperatorNode"
       /\ InsideGrouping(SubSeq(p, 1, Len(p) - 1))
       /\ TreeAt(converted.value, TreePath(p).path).isSubExpression
       /\ ~TreeAt(converted.value, TreePath(q).path).isSubExpression

(***************************************************************************)
(* Properties of the submission handler, checked under Spec.               *)
(***************************************************************************)
\* C2: whenever the most recent submission failed, the tree state is null
\* and nothing is drawn.
C2_FailureShowsNoTree ==
  lastSubmit = "failed" => (tree = Null /\ svg = <<>>)

(***************************************************************************)
(* Properties of the normalizer, checked under SpecPre.                    *)
(***************************************************************************)
Normalized == ppc \in {"once", "twice"}

\* What the single-character rules (lines 76-79 and 82) make of a character.
Canon(c) ==
  IF c \in {"{", "["} THEN "("
  ELSE IF c \in {"}", "]"} THEN ")"
  ELSE IF c = EnDash THEN "-"
  ELSE c

\* Whether position g of s, an opening bracket aside, is a digit that only
\* whitespace separates from an opening bracket.
DigitThenOpen(s, g) ==
  /\ IsDigit(s[g])
  /\ \E k \in (g + 1)..Len(s) :
       /\ Canon(s[k]) = "("
       /\ \A x \in (g + 1)..(k - 1) : IsSpace(s[x])

\* Whether position g of s is a closing bracket that only whitespace
\* separates from a digit.
CloseThenDigit(s, g) ==
  /\ Canon(s[g]) = ")"
  /\ \E k \in (g + 1)..Len(s) :
       /\ IsDigit(s[k])
       /\ \A x \in (g + 1)..(k - 1) : IsSpace(s[x])

\* Whether position x of s is whitespace between the two characters of such
\* a pair.
SpaceInPair(s, x) ==
  /\ IsSpace(s[x])
  /\ \E g \in 1..(x - 1) :
       /\ DigitThenOpen(s, g) \/ CloseThenDigit(s, g)
       /\ \A y \in (g + 1)..x : IsSpace(s[y])

RECURSIVE Flatten(_)
Flatten(pieces) ==
  IF pieces = <<>> THEN <<>> ELSE Head(pieces) \o Flatten(Tail(pieces))

\* s with its characters canonical and " * " right after every digit run
\* and closing bracket of such a pair, the whitespace of the pair kept.
StarInserted(s) ==
  Flatten([g \in 1..Len(s) |->
    <<Canon(s[g])>>
    \o (IF DigitThenOpen(s, g) \/ CloseThenDigit(s, g) THEN Star ELSE <<>>)])

\* The same with the whitespace of the pair dropped.
StarReplacesSpace(s) ==
  Flatten([g \in 1..Len(s) |->
    (IF SpaceInPair(s, g) THEN <<>> ELSE <<Canon(s[g])>>)
    \o (IF DigitThenOpen(s, g) \/ CloseThenDigit(s, g) THEN Star ELSE <<>>)])

\* C7 as stated: every digit run followed by optional whitespace and "(" is
\* rewritten to exactly `<digits> * (`, and every ")" followed by optional
\* whitespace and a digit run to exactly `) * <digits>`: the whitespace
\* between the two does not survive.
C7_ExactForm == Normalized => processed = StarReplacesSpace(expr)

\* C7 amended: " * " is inserted right after the digit run, and right after
\* the ")", and the whitespace that stood between the two follows it:
\* `<digits> * <whitespace>(` and `) * <whitespace><digits>`.
C7_StarInserted == Normalized => processed = StarInserted(expr)

C7_Witness ==
  /\ Normalized
  /\ \E g \in 1..Len(expr) :
       /\ DigitThenOpen(expr, g) \/ CloseThenDigit(expr, g)
       /\ IsSpace(expr[g + 1])
  /\ processed = StarInserted(expr)
  /\ processed # StarReplacesSpace(expr)

\* C8 as stated: "[1+2]*{3+4}" is normalized to "(1+2) * (3+4)".
C8_Scenario5Spaced ==
  (Normalized /\ expr = Scenario5) =>
    processed = <<"(", "1", "+", "2", ")", " ", "*", " ", "(", "3", "+", "4", ")">>

\* C8 amended: "[1+2]*{3+4}" is normalized to "(1+2)*(3+4)": the brackets and
\* braces become parentheses and the existing `*` gets no spaces.
C8_Scenario5 ==
  (Normalized /\ expr = Scenario5) =>
    processed = <<"(", "1", "+", "2", ")", "*", "(", "3", "+", "4", ")">>

C8_Witness == ppc = "once" /\ expr = Scenario5 /\ Len(processed) = Len(expr)

\* Whether s holds a decimal numeral (digits, ".", digits) directly followed
\* by an opening bracket.
DecimalThenOpen(s) ==
  \E d \in 2..(Len(s) - 2) :
    /\ s[d] = "." /\ IsDigit(s[d - 1]) /\ IsDigit(s[d + 1])
    /\ LET e == DigitRunEnd(s, d + 1) IN e <= Len(s) /\ Canon(s[e]) = "("

\* C9 as stated: on "2.5(3)" no " * " is inserted and the string is returned
\* unchanged.
C9_DecimalUnchanged == (Normalized /\ expr = StrDecimal) => processed = expr

\* C9 amended: the rule fires on the digit run after the decimal point:
\* "2.5(3)" becomes "2.5 * (3)", and every decimal numeral directly followed
\* by an opening bracket gets " * " between the two.
C9_DecimalMultiplied ==
  Normalized =>
    /\ expr = StrDecimal =>
         processed = <<"2", ".", "5", " ", "*", " ", "(", "3", ")">>
    /\ DecimalThenOpen(expr) =>
         \E i \in 3..(Len(processed) - 3) :
           /\ IsDigit(processed[i])
           /\ SubSeq(processed, i + 1, i + 4) = Star \o <<"(">>
           /\ \E d \in 1..(i - 1) :
                processed[d] = "." /\ \A x \in (d + 1)..i : IsDigit(processed[x])

C9_Witness ==
  /\ Normalized /\ expr = StrDecimal /\ processed # expr
  /\ DecimalThenOpen(expr)

\* C10: a second pass of preprocessExpression changes nothing, on every
\* input string.
C10_Idempotent == ppc = "twice" => twice = processed

C10_Witness ==
  /\ ppc = "twice"
  /\ Len(processed) >= Len(expr) + 6
  /\ twice = processed
  /\ \E i \in 1..Len(expr) : expr[i] \in {"[", "{"}

====
